---------------------------- MODULE Spec2Model ----------------------------
(***************************************************************************)
(* Model of pyats_ios_example.py: an aetest script that connects to two    *)
(* IOS routers, pings, scrapes `show version` and `show ip interface       *)
(* brief` with regular expressions, compares the interface counts and      *)
(* disconnects.                                                            *)
(*                                                                         *)
(* Text is a sequence of characters.  A character is a one-token string;   *)
(* the literal words of the patterns ("Ethernet", "Serial", "interfaces")  *)
(* are single tokens, "CR" "LF" "SP" are \r \n and the blank, "x" is any   *)
(* other character.                                                        *)
(*                                                                         *)
(* The script only supplies callbacks; the aetest runner decides what runs *)
(* next.  The runner's rules the script relies on are modelled as follows: *)
(*  - the subsections of common_setup run in order, then the iterations of *)
(*    PingTestcase, then those of VerifyInterfaceCountTestcase, then       *)
(*    common_cleanup;                                                      *)
(*  - self.failed(..., goto = ['exit']) ends the script there: nothing     *)
(*    else runs, common_cleanup included;                                  *)
(*  - an exception a section does not catch (AssertionError: failed, any   *)
(*    other: errored) ends that section only, and the next section runs;   *)
(*  - an exception inside `with steps.start(...)` ends the section as      *)
(*    errored;                                                             *)
(*  - when common_setup has not passed the testcases are blocked and       *)
(*    common_cleanup runs;                                                 *)
(*  - each iteration of a looped testcase is a new instance with its own   *)
(*    parameters.                                                          *)
(* A session's `connected` flag changes only by connect() and disconnect().*)
(***************************************************************************)
EXTENDS Integers, Sequences, FiniteSets, TLC

\* ------------------------------------------------------------------ bounds
\* longest `show version` / `show ip interface brief` output a device returns
\* in a run of the script, in segments
RunVerSegs == 1
RunLstSegs == 2
\* longest output the extraction functions are applied to on their own
MaxVerSegs == 3
MaxLstSegs == 4
\* largest interface count a device prints in a summary line
MaxCount == 1

\* ------------------------------------------------------------- characters
Digit == {"0", "1", "2", "3", "4", "5", "6", "7", "8", "9"}

\* \s of Python's re for the characters of the model
Whitespace == {"CR", "LF", "SP"}

DigitVal(c) ==
  CASE c = "0" -> 0 [] c = "1" -> 1 [] c = "2" -> 2 [] c = "3" -> 3
    [] c = "4" -> 4 [] c = "5" -> 5 [] c = "6" -> 6 [] c = "7" -> 7
    [] c = "8" -> 8 [] c = "9" -> 9

DigitChar(d) ==
  CASE d = 0 -> "0" [] d = 1 -> "1" [] d = 2 -> "2" [] d = 3 -> "3"
    [] d = 4 -> "4" [] d = 5 -> "5" [] d = 6 -> "6" [] d = 7 -> "7"
    [] d = 8 -> "8" [] d = 9 -> "9"

\* int(): a run of decimal digits as a base-10 integer
RECURSIVE int(_)
int(ds) ==
  IF ds = <<>> THEN 0
  ELSE 10 * int(SubSeq(ds, 1, Len(ds) - 1)) + DigitVal(ds[Len(ds)])

\* '{}'.format(n): a non-negative integer as its decimal digits
RECURSIVE format(_)
format(n) ==
  IF n < 10 THEN <<DigitChar(n)>>
  ELSE Append(format(n \div 10), DigitChar(n % 10))

\* --------------------------------------------------------------- matching
\* the literal `lit` stands in `t` at position i
LitAt(t, i, lit) ==
  /\ i + Len(lit) - 1 <= Len(t)
  /\ \A k \in 1..Len(lit) : t[i + k - 1] = lit[k]

\* a greedy cls+ from position i: the position after the longest run of
\* characters of cls (i itself when there is none)
RECURSIVE RunEnd(_, _, _)
RunEnd(t, i, cls) ==
  IF i <= Len(t) /\ t[i] \in cls THEN RunEnd(t, i + 1, cls) ELSE i

\* ' Ethernet interfaces\r\n' and ' Serial interfaces\r\n'
EthernetTail == <<"SP", "Ethernet", "SP", "interfaces", "CR", "LF">>
SerialTail == <<"SP", "Serial", "SP", "interfaces", "CR", "LF">>

NoMatch == [ok |-> FALSE]

\* the summary pattern tried at position i:
\* (?P<ethernet>\d+) Ethernet interfaces\r\n(?P<serial>\d+) Serial interfaces\r\n
TallyMatchAt(t, i) ==
  LET j == RunEnd(t, i, Digit)
      k == j + Len(EthernetTail)
      m == RunEnd(t, k, Digit)
  IN  IF /\ j > i
         /\ LitAt(t, j, EthernetTail)
         /\ m > k
         /\ LitAt(t, m, SerialTail)
      THEN [ok |-> TRUE,
            ethernet |-> SubSeq(t, i, j - 1),
            serial |-> SubSeq(t, k, m - 1)]
      ELSE NoMatch

\* TallySearch taking the last occurrence of the pattern instead of the first
TallySearch_Rightmost(t) ==
  LET hits == {i \in 1..Len(t) : TallyMatchAt(t, i).ok}
  IN  IF hits = {} THEN NoMatch
      ELSE TallyMatchAt(t, CHOOSE i \in hits : \A h \in hits : i >= h)

\* re.search of the summary pattern: the match at the leftmost position
TallySearch(t) ==
  LET hits == {i \in 1..Len(t) : TallyMatchAt(t, i).ok}
  IN  IF hits = {} THEN NoMatch
      ELSE TallyMatchAt(t, CHOOSE i \in hits : \A h \in hits : i <= h)

\* \r\n<word>\d+/\d+\s+ tried at position i: the position after the match,
\* 0 when there is none
LineMatchEnd(t, i, word) ==
  LET a == i + 3
      b == RunEnd(t, a, Digit)
      c == RunEnd(t, b + 1, Digit)
      d == RunEnd(t, c, Whitespace)
  IN  IF /\ LitAt(t, i, <<"CR", "LF", word>>)
         /\ b > a
         /\ LitAt(t, b, <<"/">>)
         /\ c > b + 1
         /\ d > c
      THEN d
      ELSE 0

\* len(tuple(re.finditer(...))): the non-overlapping matches from position i
\* on, each search resuming where the previous match ended
RECURSIVE FindIterCount(_, _, _)
FindIterCount(t, i, word) ==
  IF i > Len(t) THEN 0
  ELSE LET e == LineMatchEnd(t, i, word)
       IN  IF e = 0 THEN FindIterCount(t, i + 1, word)
           ELSE 1 + FindIterCount(t, e, word)


\* 'Success rate is (?P<rate>\d+) percent' tried at position i
RateMatchAt(t, i) ==
  LET a == i + 1
      b == RunEnd(t, a, Digit)
  IN  /\ LitAt(t, i, <<"Success rate is ">>)
      /\ b > a
      /\ LitAt(t, b, <<" percent">>)

\* re.search of the success-rate pattern finds a match
RateSearch(t) == \E i \in 1..Len(t) : RateMatchAt(t, i)

\* ----------------------------------------------------------------- inputs
RECURSIVE Flatten(_)
Flatten(ss) == IF ss = <<>> THEN <<>> ELSE Head(ss) \o Flatten(Tail(ss))

SeqsUpTo(S, n) == UNION {[1..k -> S] : k \in 0..n}

Range(f) == {f[i] : i \in DOMAIN f}

\* the interface counts a device prints: a one-digit and a two-digit one
Counts == {MaxCount, 10 + MaxCount}

\* the two summary lines as a device prints them
SummaryText(e, s) == format(e) \o EthernetTail \o format(s) \o SerialTail

\* the counts the tally extraction is tried on by itself
TallyCounts == Counts \cup {0}

\* pieces of a `show version` output with counts of cs: the summary lines, a
\* summary whose Serial line is missing, any other character, a digit
VersionSegments(cs) ==
  {SummaryText(e, s) : e \in cs, s \in cs}
    \cup {format(MaxCount) \o EthernetTail, <<"x">>, <<"1">>}

\* the `show version` outputs of at most n segments
VersionOutputs(cs, n) ==
  {Flatten(ss) : ss \in SeqsUpTo(VersionSegments(cs), n)}

\* one line of `show ip interface brief` up to the blank after the name
ListingLine(word) == <<"CR", "LF", word, "0", "/", "1", "SP">>

\* pieces of a `show ip interface brief` output
ListingSegments == {ListingLine("Ethernet"), ListingLine("Serial"), <<"x">>}

\* the `show ip interface brief` outputs of at most n segments
ListingOutputs(n) == {Flatten(ss) : ss \in SeqsUpTo(ListingSegments, n)}

PingOutputs ==
  { <<"x", "Success rate is ", "1", "0", "0", " percent", "x">>,
    <<"x", "Success rate is ", "0", " percent", "x">>,
    <<"x">> }

\* what a call on a device session can do: return, return without effect, raise
ConnectOutcomes == {"ok", "refused", "raise"}
DisconnectOutcomes == {"ok", "stuck", "raise"}

\* the testbeds the script can be launched with
Testbeds ==
  [devices : { <<>>, <<"ios1">>, <<"ios1", "ios2">>, <<"ios2", "ios1">>,
               <<"ios1", "ios2", "ios3">> },
   links : {0, 1}]

\* PingDevices with the loop's devices in the other order
PingDevices_Reversed == <<"ios2", "ios1">>

\* @aetest.loop(device = ('ios1', 'ios2'))
PingDevices == <<"ios1", "ios2">>
\* @aetest.test.loop(destination = ('10.10.10.1', '10.10.10.2'))
Destinations == <<"10.10.10.1", "10.10.10.2">>

\* a Python None for a count
None == -1

\* ------------------------------------------------------------------ state
VARIABLES
  pc,                        \* the section the runner starts next, or "done"
  testbed,                   \* the testbed the script was launched with
  scriptParams,              \* devices in the testscript parameters
  connected,                 \* each device session's `connected` flag
  connectOK,                 \* devices whose connect() returned
  csPassed,                  \* no common setup subsection has failed so far
  loopDevices,               \* the devices VerifyInterfaceCountTestcase loops over
  devIdx,                    \* the running testcase's place in its device loop
  destIdx,                   \* ping's place in its destination loop
  tcParams,                  \* the running testcase's own parameters: <<>> or the tally
  tallySource,               \* the device whose `show version` gave tcParams
  verifyCall,                \* the arguments of verify_interface_count while
                             \* it is the section that ran last
  result,                    \* the text the last command returned
  lastSection,               \* the section that ran last
  sectionResult,             \* its result
  reported,                  \* the count comparisons it reported as failed
  len_ethernet_interfaces,   \* the listing's counts it computed, or None
  len_serial_interfaces,
  log,                       \* the commands issued to the devices, in order
  failed,                    \* some section has failed or errored
  exited,                    \* a goto = ['exit'] has ended the run
  disconnectCalled           \* devices whose disconnect() was called

vars ==
  <<pc, testbed, scriptParams, connected, connectOK, csPassed, loopDevices,
    devIdx, destIdx, tcParams, tallySource, verifyCall, result, lastSection,
    sectionResult, reported, len_ethernet_interfaces, len_serial_interfaces,
    log, failed, exited, disconnectCalled>>

Devices == {"ios1", "ios2"}

\* verify_interface_count has not been called
NoCall == [device |-> "none"]

Init ==
  /\ pc = "check_topology"
  /\ testbed \in Testbeds
  /\ scriptParams = {}
  /\ connected = [d \in Devices |-> FALSE]
  /\ connectOK = {}
  /\ csPassed = TRUE
  /\ loopDevices = <<>>
  /\ devIdx = 1
  /\ destIdx = 1
  /\ tcParams = <<>>
  /\ tallySource = "none"
  /\ verifyCall = NoCall
  /\ result = <<>>
  /\ lastSection = "none"
  /\ sectionResult = "none"
  /\ reported = {}
  /\ len_ethernet_interfaces = None
  /\ len_serial_interfaces = None
  /\ log = <<>>
  /\ failed = FALSE
  /\ exited = FALSE
  /\ disconnectCalled = {}

\* ----------------------------------------------------------------- runner
\* a section ran: its name, its result, the text it read and what it found
Ran(name, res, text, rep, le, ls) ==
  /\ lastSection' = name
  /\ sectionResult' = res
  /\ result' = text
  /\ reported' = rep
  /\ len_ethernet_interfaces' = le
  /\ len_serial_interfaces' = ls
  /\ failed' = (failed \/ res # "passed")

\* GotoExit as goto = ['common_cleanup']: the run goes on with the cleanup
GotoExit_ToCleanup ==
  /\ pc' = "disconnect"
  /\ exited' = exited

\* self.failed(..., goto = ['exit']): the run ends here, common_cleanup included
GotoExit ==
  /\ pc' = "done"
  /\ exited' = TRUE

\* device.ping(...) / device.execute(...) is called, and raises or returns
Issue(cmd, device, raised) ==
  log' = Append(log, [cmd |-> cmd, device |-> device, raised |-> raised,
                      connected |-> connected[device],
                      connectOK |-> connectOK])

\* the runner starts the next iteration of VerifyInterfaceCountTestcase, a new
\* instance with its own parameters, or common_cleanup after the last one
NextVerifyIteration ==
  /\ tcParams' = <<>>
  /\ tallySource' = "none"
  /\ destIdx' = destIdx
  /\ IF devIdx < Len(loopDevices)
     THEN /\ devIdx' = devIdx + 1
          /\ pc' = "extract_interface_count"
     ELSE /\ devIdx' = devIdx
          /\ pc' = "disconnect"

\* the runner starts the next ping, the next device of PingTestcase, or the
\* first iteration of VerifyInterfaceCountTestcase
NextPingIteration ==
  /\ UNCHANGED <<tcParams, tallySource>>
  /\ IF destIdx < Len(Destinations)
     THEN /\ destIdx' = destIdx + 1
          /\ devIdx' = devIdx
          /\ pc' = "ping"
     ELSE /\ destIdx' = 1
          /\ IF devIdx < Len(PingDevices)
             THEN /\ devIdx' = devIdx + 1
                  /\ pc' = "ping"
             ELSE /\ devIdx' = 1
                  /\ pc' = "extract_interface_count"

\* ----------------------------------------------------------- common_setup
\* common_setup.check_topology
check_topology ==
  /\ pc = "check_topology"
  /\ UNCHANGED <<testbed, connected, connectOK, loopDevices, devIdx, destIdx,
                 tcParams, tallySource, verifyCall, log, disconnectCalled>>
  /\ IF testbed.devices = <<>> \/ ~(Devices \subseteq Range(testbed.devices))
     THEN \* no testbed, or ios1 / ios2 is not in it
          /\ Ran("check_topology", "failed", <<>>, {}, None, None)
          /\ GotoExit
          /\ UNCHANGED <<scriptParams, csPassed>>
     ELSE /\ scriptParams' = Devices
          /\ exited' = exited
          /\ pc' = "establish_connections"
          /\ IF testbed.links >= 1
             THEN /\ Ran("check_topology", "passed", <<>>, {}, None, None)
                  /\ csPassed' = csPassed
             ELSE \* assert len(links) >= 1
                  /\ Ran("check_topology", "failed", <<>>, {}, None, None)
                  /\ csPassed' = FALSE

\* BothConnected with `and` for `or`: one connected session is enough
BothConnected_Either(conn) == conn["ios1"] \/ conn["ios2"]

\* `if not ios1.connected or not ios2.connected` finds both sessions connected
BothConnected(conn) == conn["ios1"] /\ conn["ios2"]

\* common_setup.establish_connections; o1 and o2 are what the two connect()
\* calls do.  A step that raises ends the subsection as errored.
establish_connections(o1, o2) ==
  /\ pc = "establish_connections"
  /\ UNCHANGED <<testbed, scriptParams, loopDevices, devIdx, destIdx, tcParams,
                 tallySource, verifyCall, log, disconnectCalled>>
  /\ IF o1 = "raise"
     THEN /\ Ran("establish_connections", "errored", <<>>, {}, None, None)
          /\ UNCHANGED <<connected, connectOK, exited>>
          /\ csPassed' = FALSE
          /\ pc' = "marking_interface_count_testcases"
     ELSE LET c1 == [connected EXCEPT !["ios1"] = (o1 = "ok")] IN
          IF o2 = "raise"
          THEN /\ Ran("establish_connections", "errored", <<>>, {}, None, None)
               /\ connected' = c1
               /\ connectOK' = connectOK \cup {"ios1"}
               /\ exited' = exited
               /\ csPassed' = FALSE
               /\ pc' = "marking_interface_count_testcases"
          ELSE LET c2 == [c1 EXCEPT !["ios2"] = (o2 = "ok")] IN
               /\ connected' = c2
               /\ connectOK' = connectOK \cup Devices
               /\ IF BothConnected(c2)
                  THEN /\ Ran("establish_connections", "passed", <<>>, {},
                              None, None)
                       /\ exited' = exited
                       /\ csPassed' = csPassed
                       /\ pc' = "marking_interface_count_testcases"
                  ELSE /\ Ran("establish_connections", "failed", <<>>, {},
                              None, None)
                       /\ GotoExit
                       /\ csPassed' = FALSE

\* common_setup.marking_interface_count_testcases.  When a subsection of the
\* common setup has not passed, the runner blocks the testcases and goes on
\* with common_cleanup.
marking_interface_count_testcases ==
  /\ pc = "marking_interface_count_testcases"
  /\ UNCHANGED <<testbed, scriptParams, connected, connectOK, csPassed, devIdx,
                 destIdx, tcParams, tallySource, verifyCall, log, exited,
                 disconnectCalled>>
  /\ loopDevices' = testbed.devices
  /\ Ran("marking_interface_count_testcases", "passed", <<>>, {}, None, None)
  /\ pc' = IF csPassed THEN "ping" ELSE "disconnect"

\* ------------------------------------------------------------ PingTestcase
\* PingExcept without the goto: the failed ping is followed by the next one
PingExcept_Continue ==
  /\ NextPingIteration
  /\ exited' = exited

\* the except branch of PingTestcase.ping: self.failed(..., goto = ['exit'])
PingExcept ==
  /\ GotoExit
  /\ UNCHANGED <<devIdx, destIdx, tcParams, tallySource>>

\* PingTestcase.ping for the current device and destination
ping ==
  /\ pc = "ping"
  /\ UNCHANGED <<testbed, scriptParams, connected, connectOK, csPassed,
                 loopDevices, verifyCall, disconnectCalled>>
  /\ \/ \* ping() raises
        /\ Issue("ping", PingDevices[devIdx], TRUE)
        /\ Ran("ping", "failed", <<>>, {}, None, None)
        /\ PingExcept
     \/ \E text \in PingOutputs :
          /\ Issue("ping", PingDevices[devIdx], FALSE)
          /\ Ran("ping", IF RateSearch(text) THEN "passed" ELSE "errored",
                 text, {}, None, None)
          /\ NextPingIteration
          /\ exited' = exited

\* --------------------------------------------- VerifyInterfaceCountTestcase
\* the else branch of extract_interface_count on the text of `show version`:
\* the section's result and the testcase parameters it leaves.  With no match,
\* match.group raises AttributeError and the parameters stay as they were.
ExtractOutcome(text, params) ==
  LET match == TallySearch(text)
  IN  IF match.ok
      THEN [result |-> "passed",
            params |-> <<int(match.ethernet), int(match.serial)>>,
            updated |-> TRUE]
      ELSE [result |-> "errored", params |-> params, updated |-> FALSE]

\* VerifyInterfaceCountTestcase.extract_interface_count for the current device
extract_interface_count ==
  /\ pc = "extract_interface_count"
  /\ UNCHANGED <<testbed, scriptParams, connected, connectOK, csPassed,
                 loopDevices, devIdx, destIdx, disconnectCalled>>
  /\ verifyCall' = NoCall
  /\ LET device == loopDevices[devIdx] IN
     IF device \notin scriptParams
     THEN \* self.parameters[device] raises KeyError inside the try
          /\ Ran("extract_interface_count", "failed", <<>>, {}, None, None)
          /\ GotoExit
          /\ UNCHANGED <<tcParams, tallySource, log>>
     ELSE \/ \* execute() raises
             /\ Issue("show version", device, TRUE)
             /\ Ran("extract_interface_count", "failed", <<>>, {}, None, None)
             /\ GotoExit
             /\ UNCHANGED <<tcParams, tallySource>>
          \/ \E text \in VersionOutputs(Counts, RunVerSegs) :
                  LET out == ExtractOutcome(text, tcParams) IN
                  /\ Issue("show version", device, FALSE)
                  /\ Ran("extract_interface_count", out.result, text, {},
                         None, None)
                  /\ tcParams' = out.params
                  /\ tallySource' = IF out.updated THEN device ELSE tallySource
                  /\ pc' = "verify_interface_count"
                  /\ exited' = exited

\* the value bound to a count parameter of verify_interface_count: the
\* testcase parameter when there is one, the default 0 otherwise
Argument(params, i) == IF params = <<>> THEN 0 ELSE params[i]

\* VerifyOutcome without the serial assert
VerifyOutcome_EthernetOnly(text, ethernet_intf_count, serial_intf_count) ==
  LET le == FindIterCount(text, 1, "Ethernet")
      ls == FindIterCount(text, 1, "Serial")
  IN  IF le # ethernet_intf_count
      THEN [result |-> "failed", reported |-> {"ethernet"},
            len_ethernet_interfaces |-> le, len_serial_interfaces |-> None]
      ELSE [result |-> "passed", reported |-> {},
            len_ethernet_interfaces |-> le, len_serial_interfaces |-> ls]

\* VerifyOutcome with both comparisons made before the section fails
VerifyOutcome_ReportAll(text, ethernet_intf_count, serial_intf_count) ==
  LET le == FindIterCount(text, 1, "Ethernet")
      ls == FindIterCount(text, 1, "Serial")
      rep == (IF le # ethernet_intf_count THEN {"ethernet"} ELSE {})
               \cup (IF ls # serial_intf_count THEN {"serial"} ELSE {})
  IN  [result |-> IF rep = {} THEN "passed" ELSE "failed", reported |-> rep,
       len_ethernet_interfaces |-> le, len_serial_interfaces |-> ls]

\* the else branch of verify_interface_count on the text of `show ip interface
\* brief`: the counts it computes, the section's result and the comparison
\* whose assert failed.  The first failing assert ends the section.
VerifyOutcome(text, ethernet_intf_count, serial_intf_count) ==
  LET le == FindIterCount(text, 1, "Ethernet")
      ls == FindIterCount(text, 1, "Serial")
  IN  IF le # ethernet_intf_count
      THEN [result |-> "failed", reported |-> {"ethernet"},
            len_ethernet_interfaces |-> le, len_serial_interfaces |-> None]
      ELSE IF ls # serial_intf_count
      THEN [result |-> "failed", reported |-> {"serial"},
            len_ethernet_interfaces |-> le, len_serial_interfaces |-> ls]
      ELSE [result |-> "passed", reported |-> {},
            len_ethernet_interfaces |-> le, len_serial_interfaces |-> ls]

\* VerifyInterfaceCountTestcase.verify_interface_count for the current device
verify_interface_count ==
  /\ pc = "verify_interface_count"
  /\ UNCHANGED <<testbed, scriptParams, connected, connectOK, csPassed,
                 loopDevices, disconnectCalled>>
  /\ LET device == loopDevices[devIdx] IN
     /\ verifyCall' = [device |-> device,
                       ethernet_intf_count |-> Argument(tcParams, 1),
                       serial_intf_count |-> Argument(tcParams, 2),
                       defaults |-> (tcParams = <<>>),
                       tallySource |-> tallySource]
     /\ \/ \* execute() raises
           /\ Issue("show ip interface brief", device, TRUE)
           /\ Ran("verify_interface_count", "failed", <<>>, {}, None, None)
           /\ GotoExit
           /\ UNCHANGED <<devIdx, destIdx, tcParams, tallySource>>
        \/ \E text \in ListingOutputs(RunLstSegs) :
             LET out == VerifyOutcome(text, Argument(tcParams, 1),
                                      Argument(tcParams, 2)) IN
             /\ Issue("show ip interface brief", device, FALSE)
             /\ Ran("verify_interface_count", out.result, text, out.reported,
                    out.len_ethernet_interfaces, out.len_serial_interfaces)
             /\ NextVerifyIteration
             /\ exited' = exited

\* --------------------------------------------------------- common_cleanup
\* common_cleanup.disconnect; d1 and d2 are what the two disconnect() calls
\* do.  A step that raises ends the subsection as errored.
disconnect(d1, d2) ==
  /\ pc = "disconnect"
  /\ UNCHANGED <<testbed, scriptParams, connectOK, csPassed, loopDevices,
                 devIdx, destIdx, tcParams, tallySource, log>>
  /\ verifyCall' = NoCall
  /\ pc' = "done"
  /\ IF d1 = "raise"
     THEN /\ Ran("disconnect", "errored", <<>>, {}, None, None)
          /\ disconnectCalled' = disconnectCalled \cup {"ios1"}
          /\ UNCHANGED <<connected, exited>>
     ELSE LET c1 == [connected EXCEPT
                       !["ios1"] = (connected["ios1"] /\ d1 = "stuck")] IN
          IF d2 = "raise"
          THEN /\ Ran("disconnect", "errored", <<>>, {}, None, None)
               /\ disconnectCalled' = disconnectCalled \cup Devices
               /\ connected' = c1
               /\ exited' = exited
          ELSE LET c2 == [c1 EXCEPT
                            !["ios2"] = (connected["ios2"] /\ d2 = "stuck")] IN
               /\ disconnectCalled' = disconnectCalled \cup Devices
               /\ connected' = c2
               /\ IF c2["ios1"] \/ c2["ios2"]
                  THEN /\ Ran("disconnect", "failed", <<>>, {}, None, None)
                       /\ exited' = TRUE
                  ELSE /\ Ran("disconnect", "passed", <<>>, {}, None, None)
                       /\ exited' = exited

\* ---------------------------------------------------------- specification
Next ==
  \/ check_topology
  \/ \E o1, o2 \in ConnectOutcomes : establish_connections(o1, o2)
  \/ marking_interface_count_testcases
  \/ ping
  \/ extract_interface_count
  \/ verify_interface_count
  \/ \E d1, d2 \in DisconnectOutcomes : disconnect(d1, d2)

Spec == Init /\ [][Next]_vars

\* ------------------------------------------- the extractions on their own
\* every variable but pc and result as the script starts with it
Idle ==
  /\ testbed = [devices |-> <<"ios1", "ios2">>, links |-> 1]
  /\ scriptParams = {}
  /\ connected = [d \in Devices |-> FALSE]
  /\ connectOK = {}
  /\ csPassed = TRUE
  /\ loopDevices = <<>>
  /\ devIdx = 1
  /\ destIdx = 1
  /\ tcParams = <<>>
  /\ tallySource = "none"
  /\ verifyCall = NoCall
  /\ lastSection = "none"
  /\ sectionResult = "none"
  /\ reported = {}
  /\ len_ethernet_interfaces = None
  /\ len_serial_interfaces = None
  /\ log = <<>>
  /\ failed = FALSE
  /\ exited = FALSE
  /\ disconnectCalled = {}

\* the tally extraction of extract_interface_count applied to a text
InitTally ==
  /\ pc = "tally_input"
  /\ result \in VersionOutputs(TallyCounts, MaxVerSegs)
  /\ Idle

extractTally ==
  /\ pc = "tally_input"
  /\ LET out == ExtractOutcome(result, tcParams) IN
     /\ tcParams' = out.params
     /\ sectionResult' = out.result
  /\ pc' = "tally_done"
  /\ UNCHANGED <<testbed, scriptParams, connected, connectOK, csPassed,
                 loopDevices, devIdx, destIdx, tallySource, verifyCall, result,
                 lastSection, reported, len_ethernet_interfaces,
                 len_serial_interfaces, log, failed, exited, disconnectCalled>>

NextTally == extractTally

SpecTally == InitTally /\ [][NextTally]_vars

\* the listing extraction of verify_interface_count applied to a text
InitListing ==
  /\ pc = "listing_input"
  /\ result \in ListingOutputs(MaxLstSegs)
  /\ Idle

extractListing ==
  /\ pc = "listing_input"
  /\ len_ethernet_interfaces' = FindIterCount(result, 1, "Ethernet")
  /\ len_serial_interfaces' = FindIterCount(result, 1, "Serial")
  /\ pc' = "listing_done"
  /\ UNCHANGED <<testbed, scriptParams, connected, connectOK, csPassed,
                 loopDevices, devIdx, destIdx, tcParams, tallySource,
                 verifyCall, result, lastSection, sectionResult, reported, log,
                 failed, exited, disconnectCalled>>

NextListing == extractListing

SpecListing == InitListing /\ [][NextListing]_vars

\* ------------------------------------------------------------ properties
\* verify_interface_count ran last and reached its comparisons
Compared ==
  /\ lastSection = "verify_interface_count"
  /\ len_ethernet_interfaces # None

\* the listing's counts as verify_interface_count takes them from its text
ListingEthernet == FindIterCount(result, 1, "Ethernet")
ListingSerial == FindIterCount(result, 1, "Serial")

TestSections ==
  {"ping", "extract_interface_count", "verify_interface_count"}

C2_ValidateIff ==
  Compared =>
    ((sectionResult = "passed") <=>
       (/\ ListingEthernet = verifyCall.ethernet_intf_count
        /\ ListingSerial = verifyCall.serial_intf_count))

\* C2 witness: a validation that passed on counts that are not zero.
C2_Witness ==
  /\ Compared
  /\ sectionResult = "passed"
  /\ verifyCall.ethernet_intf_count = 1
  /\ verifyCall.serial_intf_count = 1

\* C3 as claimed: when the ethernet counts and the serial counts both
\* disagree, both mismatches are reported.
C3_BothReported ==
  (/\ Compared
   /\ ListingEthernet # verifyCall.ethernet_intf_count
   /\ ListingSerial # verifyCall.serial_intf_count)
    => reported = {"ethernet", "serial"}

\* C3 amended: validation reports the first mismatch only.  An ethernet
\* mismatch is reported whenever the ethernet counts disagree, and then the
\* serial count is neither computed nor compared; a serial mismatch is
\* reported exactly when the ethernet counts agree and the serial counts
\* disagree.
C3_FirstMismatchOnly ==
  Compared =>
    IF ListingEthernet # verifyCall.ethernet_intf_count
    THEN reported = {"ethernet"} /\ len_serial_interfaces = None
    ELSE /\ len_serial_interfaces = ListingSerial
         /\ reported = IF ListingSerial # verifyCall.serial_intf_count
                       THEN {"serial"} ELSE {}

\* C3 witness: a validation in which both dimensions disagree.
C3_Witness ==
  /\ Compared
  /\ ListingEthernet # verifyCall.ethernet_intf_count
  /\ ListingSerial # verifyCall.serial_intf_count

\* C4 as claimed: when the summary pattern is absent from the `show version`
\* output the section ends as a failure and records no tally, and the count
\* validation is never made with the defaults standing in for the tally.
C4_ParseFailureIsFatal ==
  /\ (/\ lastSection = "extract_interface_count"
      /\ sectionResult # "failed"
      /\ ~TallySearch(result).ok)
       => (sectionResult = "errored" /\ tcParams = <<>>)
  /\ Compared => ~verifyCall.defaults

\* the lines of a text that have the form \r\n<word><slot>/<port> followed by
\* whitespace: the positions where such a line starts
LineStarts(t, word) == {i \in 1..Len(t) : LineMatchEnd(t, i, word) # 0}

\* C5 as claimed: the listing extraction returns the number of Ethernet lines
\* and the number of Serial lines of the text, however the lines are placed.
C5_ListingCountsLines ==
  pc = "listing_done" =>
    /\ len_ethernet_interfaces = Cardinality(LineStarts(result, "Ethernet"))
    /\ len_serial_interfaces = Cardinality(LineStarts(result, "Serial"))

RECURSIVE ShowCommands(_)
ShowCommands(devs) ==
  IF devs = <<>> THEN <<>>
  ELSE << <<"show version", Head(devs)>>,
          <<"show ip interface brief", Head(devs)>> >>
         \o ShowCommands(Tail(devs))

Schedule(devs) ==
  << <<"ping", "ios1">>, <<"ping", "ios1">>,
     <<"ping", "ios2">>, <<"ping", "ios2">> >> \o ShowCommands(devs)

\* C7 as claimed: no command is sent to ios1 after a command was sent to ios2,
\* and only ios1 and ios2 receive commands.
C7_Ios1ThenIos2 ==
  /\ \A i \in 1..Len(log) : log[i].device \in Devices
  /\ \A i, j \in 1..Len(log) :
       (i < j /\ log[i].device = "ios2") => log[j].device # "ios1"

\* C7 amended: only ios1 and ios2 receive commands, one at a time, in this
\* order: the two pings from ios1, the two pings from ios2, and then for each
\* device of the testbed in turn `show version` followed by `show ip
\* interface brief`.  The pings to ios2 so precede the show commands to ios1.
C7_PingsThenShowsPerDevice ==
  /\ \A i \in 1..Len(log) : log[i].device \in Devices
  /\ Len(log) <= Len(Schedule(testbed.devices))
  /\ \A i \in 1..Len(log) :
       <<log[i].cmd, log[i].device>> = Schedule(testbed.devices)[i]

\* C7 witness: the show commands have reached ios1 after the pings to ios2.
C7_Witness ==
  \E i, j \in 1..Len(log) :
    /\ i < j
    /\ log[i].cmd = "ping" /\ log[i].device = "ios2"
    /\ log[j].cmd = "show ip interface brief" /\ log[j].device = "ios1"

\* the text sub stands somewhere in t
Contains(t, sub) == \E i \in 1..Len(t) : LitAt(t, i, sub)

\* C8 as claimed: for every e and s, a text that contains the summary lines
\* of e and s yields the tally (e, s), whatever surrounds them.
C8_TallyWhateverSurrounds ==
  pc = "tally_done" =>
    \A e, s \in TallyCounts :
      Contains(result, SummaryText(e, s)) =>
        (sectionResult = "passed" /\ tcParams = <<e, s>>)

\* C8 amended: for every e and s, a text in which the summary lines of e and
\* s are the first occurrence of the summary pattern and are not directly
\* preceded by a digit yields the tally (e, s).
C8_TallyOfFirstPair ==
  pc = "tally_done" =>
    \A e, s \in TallyCounts :
      \A i \in 1..Len(result) :
        (/\ LitAt(result, i, SummaryText(e, s))
         /\ (i = 1 \/ result[i - 1] \notin Digit)
         /\ \A h \in 1..(i - 1) : ~TallyMatchAt(result, h).ok)
          => (sectionResult = "passed" /\ tcParams = <<e, s>>)

\* C8 witness: a two-digit and a one-digit count extracted from summary lines
\* with other text before and after them.
C8_Witness ==
  /\ pc = "tally_done"
  /\ Len(result) > 2
  /\ result[1] = "x"
  /\ result[Len(result)] = "x"
  /\ LitAt(result, 2, SummaryText(10 + MaxCount, MaxCount))
  /\ tcParams = <<10 + MaxCount, MaxCount>>

\* C9: every ping and show command was issued to a device whose connected
\* flag was set, after both connect() calls had returned.
C9_CommandsOnlyWhenConnected ==
  \A i \in 1..Len(log) : log[i].connected /\ log[i].connectOK = Devices

\* C9 witness: a show command was issued.
C9_Witness ==
  \E i \in 1..Len(log) : log[i].cmd = "show version" /\ ~log[i].raised

\* C10 as claimed: the tally verify_interface_count compares is the one
\* extracted from the same device's `show version` in the same iteration.
C10_TallyOfSameIteration ==
  Compared => verifyCall.tallySource = verifyCall.device

=============================================================================
